---- MODULE Spec2Model ----
(***************************************************************************)
(* Model of package sofia's Common Encryption support (encryption.go):     *)
(* the pssh, tenc and senc box parsers and DecryptSample.                  *)
(*                                                                         *)
(* A byte buffer is a sequence of integers 0..255; a Go offset o (0-based) *)
(* names element o+1.  Go's int is taken as 64 bits wide, uint32 as 32:    *)
(* the only arithmetic that can wrap is the uint32 product kidCount*16.    *)
(* A run-time fault (slice bounds out of range, failed allocation) is the  *)
(* outcome Panic; a returned error is the error's message; nil is Nil.     *)
(* TLC's integers are 32-bit signed, so the input sets keep every uint32   *)
(* field below 2^31.                                                       *)
(***************************************************************************)
EXTENDS Integers, Sequences, FiniteSets, TLC

VARIABLES op, data, err, pssh, tenc, senc, sample, args, ksPos

vars == <<op, data, err, pssh, tenc, senc, sample, args, ksPos>>

----------------------------------------------------------------------------
(* Bounds of the explored inputs.                                          *)

MaxKids == 2
MaxData == 2
MaxTencLen == 42
MaxSamples == 2
MaxSubs == 2
MaxSampleLen == 8

----------------------------------------------------------------------------
(* Outcomes and byte helpers.                                              *)

Nil == "nil"
Panic == "panic"

Zeros(n) == [i \in 1..n |-> 0]

\* n bytes whose values depend on the offset they sit at, so that a read
\* from the wrong offset is visible; below 128, so that any four of them
\* read as a uint32 stay below 2^31.
Fill(off, n) == [i \in 1..n |-> ((off + i - 1) * 7 + 1) % 128]

U32BE(v) == << (v \div 16777216) % 256, (v \div 65536) % 256, (v \div 256) % 256, v % 256 >>

U16BE(v) == << (v \div 256) % 256, v % 256 >>

Prefix(s, n) == SubSeq(s, 1, n)

Prefixes(s) == { Prefix(s, n) : n \in 0..Len(s) }

----------------------------------------------------------------------------
(* The cursor primitive: parser{data, offset} and its big-endian reads.    *)
(* The reads return the value; the caller advances the offset.             *)

Bytes(d, off, n) == SubSeq(d, off + 1, off + n)

Byte(d, off) == d[off + 1]

Uint16(d, off) == d[off + 1] * 256 + d[off + 2]

Uint32(d, off) == d[off + 1] * 16777216 + d[off + 2] * 65536 + d[off + 3] * 256 + d[off + 4]

\* BoxHeader: the declared box size and the four-character type.
ZeroHeader == [Size |-> 0, Type |-> Zeros(4)]

HeaderParse(h, d) ==
    IF Len(d) < 8
    THEN [hdr |-> h, err |-> "header too short"]
    ELSE [hdr |-> [Size |-> Uint32(d, 0), Type |-> Bytes(d, 4, 4)], err |-> Nil]

----------------------------------------------------------------------------
(* PsshBox.Parse                                                           *)

ZeroPssh ==
    [Header |-> ZeroHeader, Version |-> 0, Flags |-> Zeros(3),
     SystemID |-> Zeros(16), KIDs |-> <<>>, Data |-> <<>>]

\* if b.Version > 0
PsshHasKIDsSkipV1(version) == version > 1

PsshHasKIDs(version) == version > 0

\* kidCount*16 in uint32 arithmetic: (kidCount * 16) mod 2^32, computed as
\* ((kidCount mod 2^28) * 16) so that no intermediate value leaves 32 bits.
KidBytes(kidCount) == (kidCount % 268435456) * 16

\* for i := 0; i < int(kidCount); i++ { copy(b.KIDs[i][:], p.Bytes(16)) }
\* p.Bytes(16) past the end of the buffer is a slice-bounds panic; kids is
\* the filled part of b.KIDs (after a panic the zero entries behind it are
\* left out).
RECURSIVE PsshReadKIDs(_, _, _, _, _)
PsshReadKIDs(d, off, i, kidCount, kids) ==
    IF i >= kidCount
    THEN [kids |-> kids, off |-> off, err |-> Nil]
    ELSE IF off + 16 > Len(d)
         THEN [kids |-> kids, off |-> off, err |-> Panic]
         ELSE PsshReadKIDs(d, off + 16, i + 1, kidCount, Append(kids, Bytes(d, off, 16)))

\* The data-size field and the data bytes, read at offset off.
PsshReadData(b, d, off) ==
    IF Len(d) < off + 4
    THEN [box |-> b, err |-> "pssh too short for data size"]
    ELSE LET dataSize == Uint32(d, off)
         IN  IF Len(d) < (off + 4) + dataSize
             THEN [box |-> b, err |-> "pssh size mismatch"]
             ELSE [box |-> [b EXCEPT !.Data = Bytes(d, off + 4, dataSize)], err |-> Nil]

PsshParse(b, d) ==
    LET h == HeaderParse(b.Header, d)
    IN  IF h.err # Nil
        THEN [box |-> b, err |-> h.err]
        ELSE LET b0 == [b EXCEPT !.Header = h.hdr]
             IN  IF Len(d) < 28
                 THEN [box |-> b0, err |-> "pssh too short"]
                 ELSE LET b1 == [b0 EXCEPT !.Version = Byte(d, 8),
                                           !.Flags = Bytes(d, 9, 3),
                                           !.SystemID = Bytes(d, 12, 16)]
                      IN  IF PsshHasKIDs(b1.Version)
                          THEN IF Len(d) < 28 + 4
                               THEN [box |-> b1, err |-> "pssh too short for KID count"]
                               ELSE LET kidCount == Uint32(d, 28)
                                    IN  IF Len(d) < 32 + KidBytes(kidCount)
                                        THEN [box |-> b1, err |-> "pssh too short for KIDs"]
                                        ELSE LET r == PsshReadKIDs(d, 32, 0, kidCount, <<>>)
                                                 b2 == [b1 EXCEPT !.KIDs = r.kids]
                                             IN  IF r.err # Nil
                                                 THEN [box |-> b2, err |-> r.err]
                                                 ELSE PsshReadData(b2, d, r.off)
                          ELSE PsshReadData(b1, d, 28)

\* Input buffers: a pssh box laid out with or without a key-ID section, cut
\* at every length.  The version byte is chosen independently of the layout.
PsshType == <<112, 115, 115, 104>>

PsshKidCounts == {0, 1, 2, 268435456, 268435457}

PsshDataSizes == {0, 1, 2, 1073741824}

Min(a, b) == IF a < b THEN a ELSE b

PsshFull(version, hasKids, kc, ds) ==
    LET head == U32BE(0) \o PsshType \o <<version, 0, 0, 5>> \o Fill(12, 16)
        nk == Min(kc, MaxKids)
        kid == IF hasKids THEN U32BE(kc) \o Fill(32, 16 * nk) ELSE <<>>
        o == 28 + Len(kid)
        full == head \o kid \o U32BE(ds) \o Fill(o + 4, Min(ds, MaxData))
    IN  U32BE(Len(full)) \o SubSeq(full, 5, Len(full))

PsshInputs ==
    UNION { Prefixes(PsshFull(v, hk, kc, ds)) :
              v \in {0, 1, 2}, hk \in BOOLEAN, kc \in PsshKidCounts, ds \in PsshDataSizes }

----------------------------------------------------------------------------
(* TencBox.Parse                                                           *)

ZeroTenc ==
    [Header |-> ZeroHeader, Version |-> 0, Flags |-> 0,
     DefaultIsProtected |-> 0, DefaultPerSampleIVSize |-> 0,
     DefaultKID |-> Zeros(16), DefaultConstantIVSize |-> 0,
     DefaultConstantIV |-> <<>>]

\* const requiredV0PayloadSize = 20
requiredV0PayloadSizeShort == 20 - 1

requiredV0PayloadSize == 20

\* if p.offset < int(b.Header.Size)
TencTailPresentInclusive(off, size) == off <= size

TencTailPresent(off, size) == off < size

\* The conditional constant-IV tail, read at offset off (32).
TencReadTail(b, d, off) ==
    IF b.DefaultIsProtected = 1 /\ b.DefaultPerSampleIVSize = 0
    THEN IF TencTailPresent(off, b.Header.Size)
         THEN IF Len(d) < off + 1
              THEN [box |-> b, err |-> "tenc box truncated before constant IV size"]
              ELSE LET b1 == [b EXCEPT !.DefaultConstantIVSize = Byte(d, off)]
                   IN  IF Len(d) < (off + 1) + b1.DefaultConstantIVSize
                       THEN [box |-> b1,
                             err |-> "tenc box truncated, not enough data for constant IV"]
                       ELSE [box |-> [b1 EXCEPT !.DefaultConstantIV =
                                          Bytes(d, off + 1, b1.DefaultConstantIVSize)],
                             err |-> Nil]
         ELSE [box |-> b, err |-> Nil]
    ELSE [box |-> b, err |-> Nil]

TencParse(b, d) ==
    LET h == HeaderParse(b.Header, d)
    IN  IF h.err # Nil
        THEN [box |-> b, err |-> h.err]
        ELSE LET b0 == [b EXCEPT !.Header = h.hdr]
             IN  IF Len(d) < 8 + 4
                 THEN [box |-> b0, err |-> "tenc box too short for version/flags"]
                 ELSE LET versionAndFlags == Uint32(d, 8)
                          b1 == [b0 EXCEPT !.Version = versionAndFlags \div 16777216,
                                           !.Flags = versionAndFlags % 16777216]
                      IN  IF b1.Version = 0
                          THEN IF Len(d) < 12 + requiredV0PayloadSize
                               THEN [box |-> b1,
                                     err |-> "tenc v0 box too short for required fields"]
                               ELSE IF Len(d) < 12 + (2 + 1 + 1 + 16)
                                    THEN \* p.Bytes(2), p.Byte(), p.Byte(), p.Bytes(16)
                                         \* past the end of the buffer
                                         [box |-> b1, err |-> Panic]
                                    ELSE TencReadTail(
                                           [b1 EXCEPT !.DefaultIsProtected = Byte(d, 14),
                                                      !.DefaultPerSampleIVSize = Byte(d, 15),
                                                      !.DefaultKID = Bytes(d, 16, 16)],
                                           d, 32)
                          ELSE [box |-> b1, err |-> Nil]

\* Input buffers: a tenc box with a declared size, its fixed fields, a
\* constant-IV size byte and pattern bytes up to MaxTencLen, cut at every
\* length, so the buffer may be shorter or longer than the declared size.
TencType == <<116, 101, 110, 99>>

TencSizes == {32, 33, 34, 36}

TencIVSizes == {0, 1, 2, 8}

TencFull(size, version, isProt, perSample, ivSize) ==
    U32BE(size) \o TencType \o <<version, 0, 0, 3>> \o <<0, 0>>
      \o <<isProt, perSample>> \o Fill(16, 16) \o <<ivSize>>
      \o Fill(33, MaxTencLen - 33)

TencInputs ==
    UNION { Prefixes(TencFull(sz, v, ip, ps, iv)) :
              sz \in TencSizes, v \in {0, 1}, ip \in {0, 1}, ps \in {0, 8},
              iv \in TencIVSizes }

----------------------------------------------------------------------------
(* SencBox.Parse                                                           *)

ZeroSenc == [Header |-> ZeroHeader, Flags |-> 0, Samples |-> <<>>]

\* The zero value of SampleEncryptionInfo, as make() leaves every entry.
ZeroSampleInfo == [IV |-> <<>>, Subsamples |-> <<>>]

\* const ivSize = 8
ivSize == 8

\* subsamplesPresent := b.Flags&0x000002 != 0
SubsamplesPresentBit0(flags) == flags % 2 # 0

SubsamplesPresent(flags) == (flags \div 2) % 2 # 0

\* for j := uint16(0); j < subsampleCount; j++ { ... }
RECURSIVE SencReadSubsamples(_, _, _, _, _)
SencReadSubsamples(d, off, j, subsampleCount, subs) ==
    IF j >= subsampleCount
    THEN [subs |-> subs, off |-> off, err |-> Nil]
    ELSE IF Len(d) < off + 6
         THEN [subs |-> subs \o [k \in 1..(subsampleCount - j) |->
                                   [BytesOfClearData |-> 0, BytesOfProtectedData |-> 0]],
               off |-> off, err |-> "senc truncated while reading subsample"]
         ELSE SencReadSubsamples(d, off + 6, j + 1, subsampleCount,
                Append(subs, [BytesOfClearData |-> Uint16(d, off),
                              BytesOfProtectedData |-> Uint32(d, off + 2)]))

\* for i := uint32(0); i < sampleCount; i++ { ... }; samples holds the
\* entries filled so far, the other sampleCount-i entries are still zero.
RECURSIVE SencReadSamples(_, _, _, _, _, _)
SencReadSamples(d, off, i, sampleCount, present, samples) ==
    LET rest(n) == [k \in 1..n |-> ZeroSampleInfo]
    IN  IF i >= sampleCount
        THEN [samples |-> samples, err |-> Nil]
        ELSE IF Len(d) < off + ivSize
             THEN [samples |-> samples \o rest(sampleCount - i),
                   err |-> "senc truncated while reading IV"]
             ELSE LET iv == Bytes(d, off, ivSize)
                      o1 == off + ivSize
                  IN  IF present
                      THEN IF Len(d) < o1 + 2
                           THEN [samples |-> Append(samples, [IV |-> iv, Subsamples |-> <<>>])
                                               \o rest(sampleCount - i - 1),
                                 err |-> "senc truncated while reading subsample count"]
                           ELSE LET r == SencReadSubsamples(d, o1 + 2, 0, Uint16(d, o1), <<>>)
                                    e == [IV |-> iv, Subsamples |-> r.subs]
                                IN  IF r.err # Nil
                                    THEN [samples |-> Append(samples, e)
                                                        \o rest(sampleCount - i - 1),
                                          err |-> r.err]
                                    ELSE SencReadSamples(d, r.off, i + 1, sampleCount,
                                                         present, Append(samples, e))
                      ELSE SencReadSamples(d, o1, i + 1, sampleCount, present,
                             Append(samples, [IV |-> iv, Subsamples |-> <<>>]))

SencParse(b, d) ==
    LET h == HeaderParse(b.Header, d)
    IN  IF h.err # Nil
        THEN [box |-> b, err |-> h.err]
        ELSE LET b0 == [b EXCEPT !.Header = h.hdr]
             IN  IF Len(d) < 16
                 THEN [box |-> b0, err |-> "senc too short"]
                 ELSE LET b1 == [b0 EXCEPT !.Flags = Uint32(d, 8) % 16777216]
                          sampleCount == Uint32(d, 12)
                          r == SencReadSamples(d, 16, 0, sampleCount,
                                               SubsamplesPresent(b1.Flags), <<>>)
                      IN  [box |-> [b1 EXCEPT !.Samples = r.samples], err |-> r.err]

\* Input buffers: a senc box of n samples, each an 8-byte IV and, when the
\* layout carries subsample tables, a count and that many 6-byte entries;
\* cut at every length.  The flags word is chosen independently of the
\* layout.  ms[i] is sample i's subsample count.
SencType == <<115, 101, 110, 99>>

SencFlagWords == {0, 1, 2, 16777218}

\* An IV whose first two bytes, read as a subsample count, stay small.
SencIV(off) == <<0, 1 + (off % 2)>> \o Fill(off + 2, 6)

\* m subsample entries (2-byte clear length, 4-byte protected length) whose
\* values depend on the offset they sit at.
RECURSIVE SencEntries(_, _)
SencEntries(off, m) ==
    IF m = 0
    THEN <<>>
    ELSE U16BE(off * 7 + 1) \o U32BE(off * 1001 + 5) \o SencEntries(off + 6, m - 1)

RECURSIVE SencBody(_, _, _, _)
SencBody(off, i, ms, withSubs) ==
    IF i > Len(ms)
    THEN <<>>
    ELSE LET one == SencIV(off) \o
                    (IF withSubs
                     THEN U16BE(ms[i]) \o SencEntries(off + 10, ms[i])
                     ELSE <<>>)
         IN  one \o SencBody(off + Len(one), i + 1, ms, withSubs)

SencFull(flagWord, ms, withSubs) ==
    LET body == SencBody(16, 1, ms, withSubs)
    IN  U32BE(16 + Len(body)) \o SencType \o U32BE(flagWord) \o U32BE(Len(ms)) \o body

SubCounts == UNION { [1..n -> 0..MaxSubs] : n \in 0..MaxSamples }

SencInputs ==
    UNION { Prefixes(SencFull(fw, ms, ws)) :
              fw \in SencFlagWords, ms \in SubCounts, ws \in BOOLEAN }

----------------------------------------------------------------------------
(* DecryptSample                                                           *)

RECURSIVE Xor(_, _)
Xor(a, b) ==
    IF a = 0 THEN b
    ELSE IF b = 0 THEN a
         ELSE 2 * Xor(a \div 2, b \div 2) + (((a % 2) + (b % 2)) % 2)

\* cipher.Block: a stand-in for the keyed block cipher, one 16-byte block
\* to one 16-byte block, different for each key.
BlockEncrypt(key, blk) == [i \in 1..16 |-> (blk[i] * 5 + key * 37 + i * 11) % 256]

\* The CTR counter block: the IV plus n as a big-endian number (n < 256).
CtrAdd(iv, n) ==
    [i \in 1..16 |->
        IF i = 16 THEN (iv[16] + n) % 256
        ELSE IF i = 15 THEN (iv[15] + (iv[16] + n) \div 256) % 256
             ELSE iv[i]]

\* cipher.NewCTR(block, iv): keystream byte j (from 0) is byte j mod 16 of
\* the encryption of counter block j div 16.
KeyStreamByte(key, iv, j) == BlockEncrypt(key, CtrAdd(iv, j \div 16))[(j % 16) + 1]

\* if len(iv) == 8 { paddedIV := make([]byte, 16); copy(paddedIV, iv) }
PadIV(iv) == IF Len(iv) = 8 THEN iv \o Zeros(8) ELSE iv

\* stream.XORKeyStream(chunk, chunk) for chunk = s[from:to], the stream
\* having produced pos bytes so far.
XORKeyStreamRestart(s, from, to, key, iv, pos) ==
    [i \in 1..Len(s) |->
        IF from < i /\ i <= to
        THEN Xor(s[i], KeyStreamByte(key, iv, (i - 1) - from))
        ELSE s[i]]

XORKeyStream(s, from, to, key, iv, pos) ==
    [i \in 1..Len(s) |->
        IF from < i /\ i <= to
        THEN Xor(s[i], KeyStreamByte(key, iv, pos + ((i - 1) - from)))
        ELSE s[i]]

\* sampleOffset += int(subsample.BytesOfClearData)
ChunkStartNoClear(sampleOffset, clear) == sampleOffset

ChunkStart(sampleOffset, clear) == sampleOffset + clear

\* end := sampleOffset + int(prot); if end > len(sample) { end = len(sample) }
ChunkEnd(sampleOffset, prot, length) ==
    IF sampleOffset + prot > length THEN length ELSE sampleOffset + prot

\* for _, subsample := range info.Subsamples { ... }
\* sample[sampleOffset:end] with sampleOffset > end is a slice-bounds panic.
RECURSIVE SubsampleLoop(_, _, _, _, _, _, _)
SubsampleLoop(s, subs, k, sampleOffset, pos, key, iv) ==
    IF k > Len(subs)
    THEN [sample |-> s, pos |-> pos, err |-> Nil]
    ELSE LET start == ChunkStart(sampleOffset, subs[k].BytesOfClearData)
         IN  IF subs[k].BytesOfProtectedData > 0
             THEN LET end == ChunkEnd(start, subs[k].BytesOfProtectedData, Len(s))
                  IN  IF start > end
                      THEN [sample |-> s, pos |-> pos, err |-> Panic]
                      ELSE SubsampleLoop(XORKeyStream(s, start, end, key, iv, pos),
                                         subs, k + 1, end, pos + (end - start), key, iv)
             ELSE SubsampleLoop(s, subs, k + 1, start, pos, key, iv)

\* info is either NilInfo (a nil pointer) or a SampleEncryptionInfo.
NilInfo == [isNil |-> TRUE, IV |-> <<>>, Subsamples |-> <<>>]

DecryptSample(s, info, key) ==
    IF info.isNil \/ Len(info.IV) = 0
    THEN [sample |-> s, pos |-> 0, err |-> Nil]
    ELSE LET iv == PadIV(info.IV)
         IN  IF Len(info.Subsamples) = 0
             THEN [sample |-> XORKeyStream(s, 0, Len(s), key, iv, 0),
                   pos |-> Len(s), err |-> Nil]
             ELSE SubsampleLoop(s, info.Subsamples, 1, 0, 0, key, iv)

\* The IV is absent, empty, 8 or 16 bytes long: cipher.NewCTR takes no other
\* length, and SencBox.Parse produces 8.
\* Inputs: samples of every length up to MaxSampleLen, subsample lists of
\* up to MaxSubs entries, absent, empty, 8-byte and 16-byte IVs, two keys;
\* and the 100-byte sample with subsamples (10,20),(5,65).
ClearLens == {0, 1, 3}

ProtLens == {0, 2, 6}

SubsampleInfos == [BytesOfClearData : ClearLens, BytesOfProtectedData : ProtLens]

SubsampleLists == UNION { [1..n -> SubsampleInfos] : n \in 0..MaxSubs }

IVs == { <<>>, Fill(3, 8), Fill(5, 16) }

Infos ==
    {NilInfo} \cup { [isNil |-> FALSE, IV |-> iv, Subsamples |-> ss] :
                       iv \in IVs, ss \in SubsampleLists }

Samples == { Fill(9, n) : n \in 0..MaxSampleLen }

ExampleSample == Fill(0, 100)

ExampleInfo ==
    [isNil |-> FALSE, IV |-> Fill(3, 8),
     Subsamples |-> << [BytesOfClearData |-> 10, BytesOfProtectedData |-> 20],
                       [BytesOfClearData |-> 5, BytesOfProtectedData |-> 65] >>]

DecryptInputs ==
    { [sample |-> s, info |-> i, key |-> k] : s \in Samples, i \in Infos, k \in {1, 2} }
      \cup { [sample |-> ExampleSample, info |-> ExampleInfo, key |-> 1] }

NoArgs == [sample |-> <<>>, info |-> NilInfo, key |-> 0]

----------------------------------------------------------------------------
(* State machine: a freshly constructed receiver, then one call.           *)

Init ==
    /\ op = "none"
    /\ data = <<>>
    /\ err = Nil
    /\ pssh = ZeroPssh
    /\ tenc = ZeroTenc
    /\ senc = ZeroSenc
    /\ sample = <<>>
    /\ args = NoArgs
    /\ ksPos = 0

CallPsshParse ==
    /\ op = "none"
    /\ \E d \in PsshInputs :
         LET r == PsshParse(pssh, d)
         IN  /\ op' = "pssh"
             /\ data' = d
             /\ pssh' = r.box
             /\ err' = r.err
    /\ UNCHANGED <<tenc, senc, sample, args, ksPos>>

CallTencParse ==
    /\ op = "none"
    /\ \E d \in TencInputs :
         LET r == TencParse(tenc, d)
         IN  /\ op' = "tenc"
             /\ data' = d
             /\ tenc' = r.box
             /\ err' = r.err
    /\ UNCHANGED <<pssh, senc, sample, args, ksPos>>

CallSencParse ==
    /\ op = "none"
    /\ \E d \in SencInputs :
         LET r == SencParse(senc, d)
         IN  /\ op' = "senc"
             /\ data' = d
             /\ senc' = r.box
             /\ err' = r.err
    /\ UNCHANGED <<pssh, tenc, sample, args, ksPos>>

CallDecryptSample ==
    /\ op = "none"
    /\ \E a \in DecryptInputs :
         LET r == DecryptSample(a.sample, a.info, a.key)
         IN  /\ op' = "decrypt"
             /\ args' = a
             /\ sample' = r.sample
             /\ ksPos' = r.pos
             /\ err' = r.err
    /\ UNCHANGED <<data, pssh, tenc, senc>>

Next == CallPsshParse \/ CallTencParse \/ CallSencParse \/ CallDecryptSample

Spec == Init /\ [][Next]_vars

----------------------------------------------------------------------------
(* Properties.                                                             *)

\* A call that returned an error value (neither nil nor a run-time fault).
IsError(e) == e # Nil /\ e # Panic

\* C1: DecryptSample completes without a fault for every sample and every
\* subsample list, also when the accumulated clear lengths move the running
\* offset past len(sample) before a subsample with protected bytes.
C1_DecryptNeverFaults == op = "decrypt" => err = Nil

\* The pssh buffer is shorter than some field requires: the 28-byte minimum,
\* the KID-count field, the KID array (16 * count bytes from offset 32, in
\* unbounded arithmetic), the data-size field or the data bytes.
PsshTooShort(d) ==
    \/ Len(d) < 28
    \/ /\ d[9] > 0
       /\ \/ Len(d) < 32
          \/ (Len(d) - 32) \div 16 < Uint32(d, 28)
          \/ LET o == 32 + 16 * Uint32(d, 28)
             IN  Len(d) < o + 4 \/ Len(d) < (o + 4) + Uint32(d, o)
    \/ /\ d[9] = 0
       /\ (Len(d) < 32 \/ Len(d) < 32 + Uint32(d, 28))

\* C2: PsshBox.Parse returns a length-violation error, and reads nothing at
\* or past len(data), whenever the buffer is shorter than required, for
\* every 32-bit value of the KID count and the data size.
C2_PsshShortBufferIsError ==
    (op = "pssh" /\ PsshTooShort(data)) => IsError(err)

\* C3: a Parse that returns an error leaves every field of its receiver at
\* the value it had before the call (here the zero value).
C3_FailedParseLeavesReceiver ==
    (op \in {"pssh", "tenc", "senc"} /\ IsError(err)) =>
        /\ pssh.Version = ZeroPssh.Version /\ pssh.Flags = ZeroPssh.Flags
        /\ pssh.SystemID = ZeroPssh.SystemID /\ pssh.KIDs = ZeroPssh.KIDs
        /\ pssh.Data = ZeroPssh.Data
        /\ tenc.DefaultIsProtected = ZeroTenc.DefaultIsProtected
        /\ tenc.DefaultKID = ZeroTenc.DefaultKID
        /\ tenc.DefaultConstantIVSize = ZeroTenc.DefaultConstantIVSize
        /\ senc.Flags = ZeroSenc.Flags /\ senc.Samples = ZeroSenc.Samples

\* The offsets (0-based) of the protected bytes of a sample of length len,
\* in order: range k starts at the end of range k-1 (or 0) plus the clear
\* length of subsample k and its protected length is clamped to end at len.
RECURSIVE ProtectedOffsets(_, _, _, _)
ProtectedOffsets(subs, k, prevEnd, len) ==
    IF k > Len(subs)
    THEN <<>>
    ELSE LET start == prevEnd + subs[k].BytesOfClearData
             stop == Min(start + subs[k].BytesOfProtectedData, len)
         IN  IF start < stop
             THEN [j \in 1..(stop - start) |-> start + j - 1]
                    \o ProtectedOffsets(subs, k + 1, stop, len)
             ELSE ProtectedOffsets(subs, k + 1, start, len)

Range(f) == { f[i] : i \in DOMAIN f }

\* The offsets at which DecryptSample changed the sample.
Changed == { o \in 0..(Len(sample) - 1) : sample[o + 1] # args.sample[o + 1] }

DecryptedWithSubsamples ==
    /\ op = "decrypt"
    /\ ~args.info.isNil
    /\ Len(args.info.IV) > 0
    /\ Len(args.info.Subsamples) > 0

IsExample == op = "decrypt" /\ args.sample = ExampleSample /\ args.info = ExampleInfo

\* C4 (amended): with a non-empty subsample list DecryptSample changes only
\* bytes inside the protected ranges; for length 100 and subsamples
\* (10,20),(5,65) the only bytes that can change are [10,30) and [35,100).
C4_OnlyProtectedRangesChange ==
    /\ DecryptedWithSubsamples =>
         /\ Len(sample) = Len(args.sample)
         /\ Changed \subseteq
              Range(ProtectedOffsets(args.info.Subsamples, 1, 0, Len(args.sample)))
    /\ IsExample => Changed \subseteq ((10..29) \cup (35..99))

C4_Witness ==
    /\ IsExample /\ err = Nil
    /\ 10 \in Changed /\ 34 \notin Changed /\ 35 \in Changed /\ 99 \in Changed

\* C4 as stated: for the example only [10,30) and [45,100) can change.
C4_ExampleRangesAsStated ==
    IsExample => Changed \subseteq ((10..29) \cup (45..99))

\* A version-0 tenc buffer of at least 32 bytes with DefaultIsProtected = 1
\* and DefaultPerSampleIVSize = 0.
TencV0ConstantIV ==
    /\ op = "tenc" /\ Len(data) >= 32
    /\ data[9] = 0 /\ data[15] = 1 /\ data[16] = 0

\* C5 (amended): for such a box, a declared size of exactly 32 parses with
\* an empty DefaultConstantIV and size 0; a declared size above 32, with the
\* buffer holding the whole box and the 33 + n bytes the size byte n at
\* offset 32 asks for, parses the tail with len(DefaultConstantIV) = n.
C5_ConstantIVTail ==
    TencV0ConstantIV =>
        /\ Uint32(data, 0) = 32 =>
             /\ err = Nil
             /\ tenc.DefaultConstantIV = <<>>
             /\ tenc.DefaultConstantIVSize = 0
        /\ (Uint32(data, 0) > 32 /\ Len(data) >= Uint32(data, 0)
              /\ Len(data) >= 33 + data[33]) =>
             /\ err = Nil
             /\ tenc.DefaultConstantIVSize = data[33]
             /\ Len(tenc.DefaultConstantIV) = tenc.DefaultConstantIVSize
             /\ tenc.DefaultConstantIV = SubSeq(data, 34, 33 + data[33])

C5_Witness ==
    /\ TencV0ConstantIV /\ err = Nil
    /\ Uint32(data, 0) = 36 /\ Len(data) = 36
    /\ tenc.DefaultConstantIVSize = 2 /\ Len(tenc.DefaultConstantIV) = 2

\* C5 as stated: a declared size above 32 with the buffer holding the whole
\* box always parses, with len(DefaultConstantIV) = DefaultConstantIVSize.
C5_TailAsStated ==
    (TencV0ConstantIV /\ Uint32(data, 0) > 32 /\ Len(data) >= Uint32(data, 0)) =>
        /\ err = Nil
        /\ Len(tenc.DefaultConstantIV) = tenc.DefaultConstantIVSize

\* C6: on success, version 0 gives no key IDs and takes the 4 bytes at
\* offset 28 as the data size; version >= 1 with count K gives exactly K
\* key IDs, entry i being the 16 bytes at offset 32 + 16*i.
C6_PsshKIDs ==
    (op = "pssh" /\ err = Nil) =>
        /\ data[9] = 0 =>
             /\ pssh.KIDs = <<>>
             /\ Len(pssh.Data) = Uint32(data, 28)
             /\ pssh.Data = SubSeq(data, 33, 32 + Uint32(data, 28))
        /\ data[9] >= 1 =>
             /\ Len(pssh.KIDs) = Uint32(data, 28)
             /\ \A i \in 1..Len(pssh.KIDs) :
                  pssh.KIDs[i] = SubSeq(data, 32 + 16 * (i - 1) + 1, 32 + 16 * i)

C6_Witness ==
    /\ op = "pssh" /\ err = Nil /\ data[9] = 1
    /\ Len(pssh.KIDs) = 2 /\ pssh.KIDs[1] # pssh.KIDs[2]

\* The offset of senc entry i (from 1), read off the buffer: 16, then 8 per
\* IV and, with subsample tables, 2 + 6 * count per table (len(d), which no
\* entry fits at, when the buffer ends before a count).
RECURSIVE SencEntryOffset(_, _, _)
SencEntryOffset(d, i, tables) ==
    IF i = 1
    THEN 16
    ELSE LET o == SencEntryOffset(d, i - 1, tables)
         IN  IF tables
             THEN IF o + 10 <= Len(d) THEN o + 10 + 6 * Uint16(d, o + 8) ELSE Len(d)
             ELSE o + 8

\* Bit 0x000002 of the flags, whose low byte is at offset 11.
SencFlagBit(d) == (d[12] \div 2) % 2 = 1

\* C7: on success Samples has exactly the declared count of entries, each
\* with an 8-byte IV; without flag 0x000002 every Subsamples is empty, with
\* it each has the length of its parsed count and holds the (clear,
\* protected) pairs in buffer order.
C7_SencSamples ==
    (op = "senc" /\ err = Nil) =>
        /\ Len(senc.Samples) = Uint32(data, 12)
        /\ \A i \in 1..Len(senc.Samples) :
             LET o == SencEntryOffset(data, i, SencFlagBit(data))
                 e == senc.Samples[i]
             IN  /\ o + 8 <= Len(data)
                 /\ e.IV = SubSeq(data, o + 1, o + 8)
                 /\ ~SencFlagBit(data) => e.Subsamples = <<>>
                 /\ SencFlagBit(data) =>
                      /\ o + 10 <= Len(data)
                      /\ Len(e.Subsamples) = Uint16(data, o + 8)
                      /\ \A j \in 1..Len(e.Subsamples) :
                           LET q == o + 10 + 6 * (j - 1)
                           IN  /\ q + 6 <= Len(data)
                               /\ e.Subsamples[j].BytesOfClearData = Uint16(data, q)
                               /\ e.Subsamples[j].BytesOfProtectedData = Uint32(data, q + 2)

C7_Witness ==
    /\ op = "senc" /\ err = Nil /\ SencFlagBit(data)
    /\ Len(senc.Samples) = 2
    /\ Len(senc.Samples[1].Subsamples) = 2
    /\ Len(senc.Samples[2].Subsamples) = 1

\* C8: the j-th protected byte of the sample, counted across all subsamples
\* after clamping, is XORed with the j-th keystream byte of the 16-byte IV;
\* clear bytes consume no keystream.
C8_KeystreamSequential ==
    DecryptedWithSubsamples =>
        LET ps == ProtectedOffsets(args.info.Subsamples, 1, 0, Len(args.sample))
        IN  /\ ksPos = Len(ps)
            /\ \A j \in 1..Len(ps) :
                 sample[ps[j] + 1] =
                    Xor(args.sample[ps[j] + 1],
                        KeyStreamByte(args.key, PadIV(args.info.IV), j - 1))

C8_Witness ==
    /\ DecryptedWithSubsamples /\ err = Nil
    /\ Len(args.info.Subsamples) = 2
    /\ args.info.Subsamples[1].BytesOfProtectedData > 0
    /\ args.info.Subsamples[2].BytesOfClearData > 0
    /\ ksPos = 3 /\ 3 \in Changed

\* C9: a version-0 tenc buffer with fewer than 20 bytes after version/flags,
\* or, the tail being present, fewer bytes than the size byte plus the
\* constant IV need, gets a length-violation error: no fault, no success.
C9_TencTruncatedIsError ==
    (op = "tenc" /\ Len(data) >= 12 /\ data[9] = 0) =>
        /\ Len(data) < 12 + 20 => IsError(err)
        /\ (Len(data) >= 32 /\ data[15] = 1 /\ data[16] = 0
              /\ 32 < Uint32(data, 0)
              /\ (Len(data) < 33 \/ Len(data) < 33 + data[33])) => IsError(err)

C9_Witness ==
    /\ op = "tenc" /\ Len(data) = 12 + 19 /\ data[9] = 0
    /\ err = "tenc v0 box too short for required fields"

\* C10: for a version-0 box in a buffer longer than Header.Size, every byte
\* of DefaultConstantIV comes from an offset below Header.Size.
C10_ConstantIVInsideBox ==
    (op = "tenc" /\ err = Nil /\ tenc.Version = 0
       /\ Len(data) > tenc.Header.Size /\ Len(tenc.DefaultConstantIV) > 0) =>
        33 + Len(tenc.DefaultConstantIV) <= tenc.Header.Size

====
